---------------------------- MODULE Spec2Model ----------------------------
(***************************************************************************)
(* Model of the Polycom SoundStructure companion module (src/main.js):     *)
(* the ModuleInstance connection manager (init / destroy / configUpdated / *)
(* connectToDevice / sendCommand and the four socket event handlers) and   *)
(* the inbound decoder processDeviceData.                                  *)
(*                                                                         *)
(* Strings are sequences of one-character strings; the carriage return,    *)
(* line feed and tab characters are written "CR", "LF" and "TAB".          *)
(*                                                                         *)
(* TCPHelper is a library class (@companion-module/base), not part of the  *)
(* repository.  It is modelled as the environment: a socket object is      *)
(* identified by a number, `live` holds the objects created and not yet    *)
(* destroyed (destroy() removes every listener, so only a live object      *)
(* delivers events) and `isConnected` holds the objects whose isConnected  *)
(* getter answers true.                                                    *)
(***************************************************************************)
EXTENDS Integers, Sequences, FiniteSets, TLC

VARIABLES
    socket,                 \* this.socket: 0 is null, otherwise the id of the TCPHelper held
    config,                 \* this.config
    virtualChannels,        \* this.virtualChannels
    presets,                \* this.presets
    channelMuteStatus,      \* this.channelMuteStatus
    crosspointMuteStatus,   \* this.crosspointMuteStatus
    status,                 \* the last status handed to updateStatus
    live,                   \* TCPHelper objects created and not destroyed
    isConnected,            \* TCPHelper objects whose isConnected is true
    created,                \* number of TCPHelper objects constructed so far
    destroyed,              \* destroy() has been called on the instance
    writes,                 \* socket.send calls of the last step: <<[sock, msg], ...>>
    notes,                  \* consumer notifications of the last step
    logs,                   \* log levels written by the last step
    rxLines,                \* SpecStream: the lines the device sends
    rxCut,                  \* SpecStream: where the transport cuts the byte stream (0: nowhere)
    rxTodo                  \* SpecStream: the data chunks still to be delivered

vars == <<socket, config, virtualChannels, presets, channelMuteStatus,
          crosspointMuteStatus, status, live, isConnected, created, destroyed,
          writes, notes, logs, rxLines, rxCut, rxTodo>>

sessionVars == <<virtualChannels, presets, channelMuteStatus, crosspointMuteStatus>>

streamVars == <<rxLines, rxCut, rxTodo>>

-----------------------------------------------------------------------------
(* Bounds *)

MaxSockets == 3

MaxLines == 2

-----------------------------------------------------------------------------
(* Characters and string primitives of the JavaScript runtime *)

DQ == "\""

CRLF == <<"CR", "LF">>

WhiteSpace == {" ", "TAB", "CR", "LF"}

LineTerminator == {"CR", "LF"}

Digits == <<"0", "1", "2", "3", "4", "5", "6", "7", "8", "9">>

IsDigit(c) == \E d \in 1..10 : Digits[d] = c

DigitValue(c) == (CHOOSE d \in 1..10 : Digits[d] = c) - 1

SetMin(S) == CHOOSE x \in S : \A y \in S : x <= y

SetMax(S) == CHOOSE x \in S : \A y \in S : x >= y

\* String.prototype.startsWith, at position i (1-based)
StartsAt(s, i, p) ==
    /\ i + Len(p) - 1 <= Len(s)
    /\ \A k \in 1..Len(p) : s[i + k - 1] = p[k]

\* Mutant: String.prototype.includes in place of startsWith
StartsWith_Anywhere(s, p) == \E i \in 1..Len(s) : StartsAt(s, i, p)

StartsWith(s, p) == StartsAt(s, 1, p)

\* String.prototype.substring(n)
Substring(s, n) == SubSeq(s, n + 1, Len(s))

\* String.prototype.split(sep) for a one-character separator
RECURSIVE Split(_, _)
Split(s, sep) ==
    LET at == {i \in 1..Len(s) : s[i] = sep}
    IN  IF at = {} THEN <<s>>
        ELSE LET i == SetMin(at)
             IN  <<SubSeq(s, 1, i - 1)>> \o Split(SubSeq(s, i + 1, Len(s)), sep)

\* String.prototype.trim
Trim(s) ==
    LET keep == {i \in 1..Len(s) : s[i] \notin WhiteSpace}
    IN  IF keep = {} THEN <<>> ELSE SubSeq(s, SetMin(keep), SetMax(keep))

\* p.replace(/"/g, '')
StripQuotes(s) == SelectSeq(s, LAMBDA c : c # DQ)

\* Mutant: the entries are not trimmed
MapTrim_NoTrim(parts) == parts

\* Array.prototype.map over a sequence
RECURSIVE MapTrim(_)
MapTrim(parts) ==
    IF parts = <<>> THEN <<>> ELSE <<Trim(Head(parts))>> \o MapTrim(Tail(parts))

\* Mutant: the entries are trimmed but keep their quotes
MapStripTrim_KeepQuotes(parts) == MapTrim(parts)

RECURSIVE MapStripTrim(_)
MapStripTrim(parts) ==
    IF parts = <<>> THEN <<>>
    ELSE <<Trim(StripQuotes(Head(parts)))>> \o MapStripTrim(Tail(parts))

\* Numbers as parseInt yields them: an integer or NaN
NaN == [nan |-> TRUE, n |-> 0]

Num(k) == [nan |-> FALSE, n |-> k]

\* ToString(undefined): what parseInt sees when the destructured value is missing
Undefined == <<"u", "n", "d", "e", "f", "i", "n", "e", "d">>

RECURSIVE DigitsValue(_, _)
DigitsValue(s, acc) ==
    IF s = <<>> \/ ~IsDigit(Head(s)) THEN acc
    ELSE DigitsValue(Tail(s), 10 * acc + DigitValue(Head(s)))

\* parseInt(value, 10): leading white space skipped, an optional sign, then the
\* longest run of decimal digits; NaN when there is no digit
ParseInt(value) ==
    LET keep == {i \in 1..Len(value) : value[i] \notin WhiteSpace}
        t    == IF keep = {} THEN <<>> ELSE SubSeq(value, SetMin(keep), Len(value))
        neg  == t # <<>> /\ Head(t) = "-"
        u    == IF t # <<>> /\ Head(t) \in {"+", "-"} THEN Tail(t) ELSE t
    IN  IF u = <<>> \/ ~IsDigit(Head(u)) THEN NaN
        ELSE Num(IF neg THEN 0 - DigitsValue(u, 0) ELSE DigitsValue(u, 0))

\* const [info, value] = data.split('=')
SplitInfo(data) == Split(data, "=")[1]

SplitValue(data) ==
    LET parts == Split(data, "=") IN IF Len(parts) >= 2 THEN parts[2] ELSE Undefined

-----------------------------------------------------------------------------
(* Literals of processDeviceData *)

S_virtual_channels == <<"v","i","r","t","u","a","l","_","c","h","a","n","n","e","l","s","=">>

S_presets == <<"p","r","e","s","e","t","s","=">>

S_mute == <<"m","u","t","e"," ">>

S_crosspoint_mute == <<"c","r","o","s","s","p","o","i","n","t","_","m","u","t","e"," ">>

\* "." of a JavaScript regular expression: any character but a line terminator
DotRun(s, from, to) == \A k \in from..to : s[k] \notin LineTerminator

\* /mute "(.*)"/.exec(info): the leftmost start, the longest capture.
\* [ok |-> matched, g1 |-> match[1]]
ExecMute(info) ==
    LET pre     == S_mute \o <<DQ>>
        Ends(i) == {j \in (i + Len(pre))..Len(info) :
                        info[j] = DQ /\ DotRun(info, i + Len(pre), j - 1)}
        starts  == {i \in 1..Len(info) : StartsAt(info, i, pre) /\ Ends(i) # {}}
    IN  IF starts = {} THEN [ok |-> FALSE, g1 |-> <<>>]
        ELSE LET i == SetMin(starts)
             IN  [ok |-> TRUE,
                  g1 |-> SubSeq(info, i + Len(pre), SetMax(Ends(i)) - 1)]

\* /crosspoint_mute "(.*)" "(.*)"/.exec(info): the leftmost start, the longest
\* first capture for which the rest matches, then the longest second capture.
\* [ok |-> matched, g1 |-> match[1], g2 |-> match[2]]
ExecCrosspoint(info) ==
    LET pre     == S_crosspoint_mute \o <<DQ>>
        sep     == <<DQ, " ", DQ>>
        Ends(j) == {k \in (j + 3)..Len(info) :
                        info[k] = DQ /\ DotRun(info, j + 3, k - 1)}
        Mids(i) == {j \in (i + Len(pre))..Len(info) :
                        /\ StartsAt(info, j, sep)
                        /\ DotRun(info, i + Len(pre), j - 1)
                        /\ Ends(j) # {}}
        starts  == {i \in 1..Len(info) : StartsAt(info, i, pre) /\ Mids(i) # {}}
    IN  IF starts = {} THEN [ok |-> FALSE, g1 |-> <<>>, g2 |-> <<>>]
        ELSE LET i == SetMin(starts)
                 j == SetMax(Mids(i))
             IN  [ok |-> TRUE,
                  g1 |-> SubSeq(info, i + Len(pre), j - 1),
                  g2 |-> SubSeq(info, j + 3, SetMax(Ends(j)) - 1)]

\* Mutant: the map is replaced by one that holds the new entry only
Put_Replace(m, key, v) == [k \in {key} |-> v]

\* obj[key] = v on a plain object
Put(m, key, v) == [k \in DOMAIN m \cup {key} |-> IF k = key THEN v ELSE m[k]]

EmptyMap == [k \in {} |-> NaN]

\* The session mirror as one value
Session(vc, pr, cm, xm) ==
    [virtualChannels |-> vc, presets |-> pr,
     channelMuteStatus |-> cm, crosspointMuteStatus |-> xm]

\* Mutant: every feedback is re-evaluated
CheckFeedbacksChannel_All == <<"checkFeedbacks">>

\* this.checkFeedbacks('channelMuteStatus')
CheckFeedbacksChannel == <<"checkFeedbacks:channelMuteStatus">>

\* this.checkFeedbacks('crosspointMuteStatus')
CheckFeedbacksCrosspoint == <<"checkFeedbacks:crosspointMuteStatus">>

\* this.updateActions()
UpdateActions == <<"updateActions">>

\* processDeviceData(data) on session mirror s: the mirror afterwards and the
\* consumer notifications fired, [s |-> mirror, notes |-> <<...>>]
ProcessDeviceData(s, data) ==
    IF StartsWith(data, S_virtual_channels) THEN
        [s |-> [s EXCEPT !.virtualChannels =
                    MapTrim(Split(Substring(data, Len(S_virtual_channels)), ","))],
         notes |-> UpdateActions]
    ELSE IF StartsWith(data, S_presets) THEN
        [s |-> [s EXCEPT !.presets =
                    MapStripTrim(Split(Substring(data, Len(S_presets)), ","))],
         notes |-> UpdateActions]
    ELSE IF StartsWith(data, S_mute) THEN
        LET match == ExecMute(SplitInfo(data))
        IN  IF match.ok
            THEN [s |-> [s EXCEPT !.channelMuteStatus =
                            Put(@, match.g1, ParseInt(SplitValue(data)))],
                  notes |-> CheckFeedbacksChannel]
            ELSE [s |-> s, notes |-> <<>>]
    ELSE IF StartsWith(data, S_crosspoint_mute) THEN
        LET match == ExecCrosspoint(SplitInfo(data))
        IN  IF match.ok
            THEN [s |-> [s EXCEPT !.crosspointMuteStatus =
                            Put(@, match.g1 \o <<":">> \o match.g2,
                                ParseInt(SplitValue(data)))],
                  notes |-> CheckFeedbacksCrosspoint]
            ELSE [s |-> s, notes |-> <<>>]
    ELSE [s |-> s, notes |-> <<>>]

-----------------------------------------------------------------------------
(* What the device sends: lines of the SoundStructure text protocol *)

NameA == <<"A">>

NameB == <<"B">>

Quoted(name) == <<DQ>> \o name \o <<DQ>>

\* mute "<name>"=<value>
MuteLine(name, value) == S_mute \o Quoted(name) \o <<"=">> \o value

\* crosspoint_mute "<in>" "<out>"=<value>
CrosspointLine(in, out, value) ==
    S_crosspoint_mute \o Quoted(in) \o <<" ">> \o Quoted(out) \o <<"=">> \o value

\* virtual_channels=A, B
ChannelsLine == S_virtual_channels \o NameA \o <<",", " ">> \o NameB

\* presets="P A","Q"
PresetsLine ==
    S_presets \o Quoted(<<"P", " ", "A">>) \o <<",">> \o Quoted(<<"Q">>)

\* mute "A"   (no "=<value>" part)
MuteNoValue == S_mute \o Quoted(NameA)

\* mute A=1   (name not quoted)
MuteNoQuotes == S_mute \o NameA \o <<"=", "1">>

\* crosspoint_mute "A"=1   (no output name)
CrosspointNoOutput == S_crosspoint_mute \o Quoted(NameA) \o <<"=", "1">>

\* crosspoint_mute "A" "B"   (no "=<value>" part)
CrosspointNoValue == S_crosspoint_mute \o Quoted(NameA) \o <<" ">> \o Quoted(NameB)

\* a line of no recognised prefix
OtherLine == <<"o", "k">>

\* val mute "B"=1   (a recognised prefix, but not at the start of the line)
EmbeddedLine == <<"v", "a", "l", " ">> \o MuteLine(NameB, <<"1">>)

\* virtual_channels=B
ChannelsLine2 == S_virtual_channels \o NameB

\* presets="Q"
PresetsLine2 == S_presets \o Quoted(<<"Q">>)

\* Channel names that contain a colon
NameAB == <<"A", ":", "B">>

NameBC == <<"B", ":", "C">>

NameC == <<"C">>

WellFormedLines ==
    { MuteLine(NameA, <<"1">>), MuteLine(NameA, <<"0">>), MuteLine(NameB, <<"0">>),
      CrosspointLine(NameA, NameB, <<"1">>), CrosspointLine(NameB, NameA, <<"0">>),
      CrosspointLine(NameAB, NameC, <<"1">>), CrosspointLine(NameA, NameBC, <<"0">>),
      ChannelsLine, ChannelsLine2, PresetsLine, PresetsLine2 }

MalformedLines == { MuteNoValue, MuteNoQuotes, CrosspointNoOutput, CrosspointNoValue }

\* Full form, but the value is not 0 or 1
OddValueLines ==
    { MuteLine(NameA, <<"2">>), MuteLine(NameA, <<"o", "n">>),
      CrosspointLine(NameA, NameB, <<"2">>) }

\* Lines that start with none of the four prefixes
UnrecognisedLines == { OtherLine, EmbeddedLine, <<>> }

Lines == WellFormedLines \cup MalformedLines \cup OddValueLines \cup UnrecognisedLines

-----------------------------------------------------------------------------
(* Inputs of the host and of the transport *)

NoConfig == [host |-> "", port |-> ""]

\* Configurations the host supplies; "" is a field left empty
Configs ==
    { [host |-> "10.0.0.1", port |-> "23"], [host |-> "10.0.0.2", port |-> "23"],
      [host |-> "", port |-> "23"], [host |-> "10.0.0.1", port |-> ""] }

CmdGetVirtualChannels ==
    <<"g","e","t"," ">> \o SubSeq(S_virtual_channels, 1, Len(S_virtual_channels) - 1)

CmdGetPresets == <<"g","e","t"," ">> \o SubSeq(S_presets, 1, Len(S_presets) - 1)

\* A command an action of the control surface sends
CmdRunPreset == <<"r","u","n"," ">> \o Quoted(<<"Q">>)

CmdSetMute == <<"s","e","t"," ">> \o MuteLine(NameA, <<"1">>)

Commands == { CmdRunPreset, CmdSetMute }

ErrorMessages == { "ECONNREFUSED", "ETIMEDOUT" }

\* Data chunks the transport delivers under Spec: one whole line each
DataChunks ==
    { l \o CRLF : l \in { MuteLine(NameA, <<"1">>), MuteLine(NameA, <<"0">>),
                          MuteLine(NameB, <<"0">>),
                          CrosspointLine(NameA, NameB, <<"1">>),
                          ChannelsLine, ChannelsLine2, PresetsLine, PresetsLine2,
                          MuteNoValue, CrosspointNoOutput,
                          MuteLine(NameA, <<"2">>) } \cup UnrecognisedLines }

SocketIds == 1..MaxSockets

-----------------------------------------------------------------------------
(* The connection manager *)

Status(kind, msg) == [kind |-> kind, msg |-> msg]

\* The session mirror held in the four fields
Mirror == Session(virtualChannels, presets, channelMuteStatus, crosspointMuteStatus)

SetMirror(s) ==
    /\ virtualChannels' = s.virtualChannels
    /\ presets' = s.presets
    /\ channelMuteStatus' = s.channelMuteStatus
    /\ crosspointMuteStatus' = s.crosspointMuteStatus

\* Mutant: the reference is dropped without socket.destroy()
LiveAfterTeardown_NoDestroy == live

\* if (this.socket) { this.socket.destroy(); this.socket = null }: the TCPHelper
\* objects still alive afterwards
LiveAfterTeardown == IF socket # 0 THEN live \ {socket} ELSE live

\* Mutant: the port is not looked at
ConfigPresent_HostOnly(cfg) == cfg.host # ""

\* this.config.host && this.config.port
ConfigPresent(cfg) == cfg.host # "" /\ cfg.port # ""

\* Mutant: the new TCPHelper is constructed without destroying the held one
connectToDevice_KeepsOld(cfg) ==
    /\ IF ConfigPresent(cfg)
       THEN /\ created < MaxSockets
            /\ created' = created + 1
            /\ socket' = created + 1
            /\ live' = live \cup {created + 1}
       ELSE /\ created' = created
            /\ socket' = 0
            /\ live' = LiveAfterTeardown
    /\ isConnected' = isConnected \cap live'

\* connectToDevice(): the held socket is destroyed, and a new TCPHelper is
\* constructed when host and port are both present
connectToDevice(cfg) ==
    /\ IF ConfigPresent(cfg)
       THEN /\ created < MaxSockets
            /\ created' = created + 1
            /\ socket' = created + 1
            /\ live' = LiveAfterTeardown \cup {created + 1}
       ELSE /\ created' = created
            /\ socket' = 0
            /\ live' = LiveAfterTeardown
    /\ isConnected' = isConnected \cap live'

\* Mutant: isConnected is not looked at
CanSend_NoConnectedCheck(sock, conn) == sock # 0

\* this.socket && this.socket.isConnected, for held socket sock and the set conn
\* of connected TCPHelper objects
CanSend(sock, conn) == sock # 0 /\ sock \in conn

\* Mutant: the terminator is a bare line feed
EncodeCommand_BareLF(cmd) == cmd \o <<"LF">>

\* `${cmd}\r\n`
EncodeCommand(cmd) == cmd \o CRLF

\* sendCommand(cmd) for each cmd of cmds in turn: the socket.send calls and the
\* log levels written
RECURSIVE SendAll(_, _, _)
SendAll(sock, conn, cmds) ==
    IF cmds = <<>> THEN [writes |-> <<>>, logs |-> <<>>]
    ELSE LET rest == SendAll(sock, conn, Tail(cmds))
         IN  IF CanSend(sock, conn)
             THEN [writes |-> <<[sock |-> sock, msg |-> EncodeCommand(Head(cmds))]>>
                                  \o rest.writes,
                   logs |-> <<"debug">> \o rest.logs]
             ELSE [writes |-> rest.writes, logs |-> <<"error">> \o rest.logs]

\* Mutant: the two queries in the other order
RequestDeviceConfiguration_Swapped == <<CmdGetPresets, CmdGetVirtualChannels>>

\* requestDeviceConfiguration(): the commands it sends, in order
RequestDeviceConfiguration == <<CmdGetVirtualChannels, CmdGetPresets>>

\* async init(config)
init(cfg) ==
    /\ config' = cfg
    /\ status' = Status("Ok", "")
    /\ connectToDevice(cfg)
    /\ notes' = <<"updateActions", "updateFeedbacks", "updateVariableDefinitions">>
    /\ writes' = <<>>
    /\ logs' = <<>>
    /\ UNCHANGED <<sessionVars, destroyed, streamVars>>

\* async destroy()
destroy ==
    /\ live' = LiveAfterTeardown
    /\ isConnected' = isConnected \cap live'
    /\ socket' = 0
    /\ destroyed' = TRUE
    /\ logs' = <<"debug">>
    /\ writes' = <<>>
    /\ notes' = <<>>
    /\ UNCHANGED <<config, status, created, sessionVars, streamVars>>

\* Mutant: a config update starts from an empty mirror
configUpdated_ClearsSession(cfg) ==
    /\ config' = cfg
    /\ connectToDevice(cfg)
    /\ virtualChannels' = <<>>
    /\ presets' = <<>>
    /\ channelMuteStatus' = EmptyMap
    /\ crosspointMuteStatus' = EmptyMap
    /\ writes' = <<>>
    /\ notes' = <<>>
    /\ logs' = <<>>
    /\ UNCHANGED <<status, destroyed, streamVars>>

\* async configUpdated(config)
configUpdated(cfg) ==
    /\ config' = cfg
    /\ connectToDevice(cfg)
    /\ writes' = <<>>
    /\ notes' = <<>>
    /\ logs' = <<>>
    /\ UNCHANGED <<status, sessionVars, destroyed, streamVars>>

\* sendCommand(cmd), called by an action of the control surface
sendCommand(cmd) ==
    /\ writes' = SendAll(socket, isConnected, <<cmd>>).writes
    /\ logs' = SendAll(socket, isConnected, <<cmd>>).logs
    /\ notes' = <<>>
    /\ UNCHANGED <<socket, config, status, live, isConnected, created, destroyed,
                   sessionVars, streamVars>>

\* this.socket.on('connect', ...), fired by TCPHelper s once it is connected
onConnect(s) ==
    /\ s \in live
    /\ s \notin isConnected
    /\ isConnected' = isConnected \cup {s}
    /\ status' = Status("Ok", "")
    /\ writes' = SendAll(socket, isConnected', RequestDeviceConfiguration).writes
    /\ logs' = <<"info">> \o SendAll(socket, isConnected', RequestDeviceConfiguration).logs
    /\ notes' = <<>>
    /\ UNCHANGED <<socket, config, live, created, destroyed, sessionVars, streamVars>>

\* this.socket.on('data', ...), fired by TCPHelper s: everything but the
\* variables of the byte stream
onDataCore(s, data) ==
    /\ s \in live
    /\ s \in isConnected
    /\ logs' = <<"debug">>
    /\ writes' = <<>>
    /\ UNCHANGED <<socket, config, status, live, isConnected, created, destroyed>>
    /\ notes' = ProcessDeviceData(Mirror, data).notes
    /\ SetMirror(ProcessDeviceData(Mirror, data).s)

onData(s, data) == onDataCore(s, data) /\ UNCHANGED streamVars

\* Mutant: the error's message is not handed to updateStatus
onError_NoMessage(s, msg) ==
    /\ s \in live
    /\ isConnected' = isConnected \ {s}
    /\ status' = Status("Error", "")
    /\ logs' = <<"error">>
    /\ writes' = <<>>
    /\ notes' = <<>>
    /\ UNCHANGED <<socket, config, live, created, destroyed, sessionVars, streamVars>>

\* this.socket.on('error', ...), fired by TCPHelper s, which no longer reports
\* itself connected
onError(s, msg) ==
    /\ s \in live
    /\ isConnected' = isConnected \ {s}
    /\ status' = Status("Error", msg)
    /\ logs' = <<"error">>
    /\ writes' = <<>>
    /\ notes' = <<>>
    /\ UNCHANGED <<socket, config, live, created, destroyed, sessionVars, streamVars>>

\* Mutant: the close handler reconnects by itself
onClose_Reconnect(s) ==
    /\ s \in live
    /\ status' = Status("Disconnected", "Connection closed")
    /\ connectToDevice(config)
    /\ logs' = <<"warn">>
    /\ writes' = <<>>
    /\ notes' = <<>>
    /\ UNCHANGED <<config, destroyed, sessionVars, streamVars>>

\* this.socket.on('close', ...), fired by TCPHelper s
onClose(s) ==
    /\ s \in live
    /\ isConnected' = isConnected \ {s}
    /\ status' = Status("Disconnected", "Connection closed")
    /\ logs' = <<"warn">>
    /\ writes' = <<>>
    /\ notes' = <<>>
    /\ UNCHANGED <<socket, config, live, created, destroyed, sessionVars, streamVars>>

\* The state the constructor leaves
Init ==
    /\ socket = 0
    /\ config = NoConfig
    /\ virtualChannels = <<>>
    /\ presets = <<>>
    /\ channelMuteStatus = EmptyMap
    /\ crosspointMuteStatus = EmptyMap
    /\ status = Status("None", "")
    /\ live = {}
    /\ isConnected = {}
    /\ created = 0
    /\ destroyed = FALSE
    /\ writes = <<>>
    /\ notes = <<>>
    /\ logs = <<>>
    /\ rxLines = <<>>
    /\ rxCut = 0
    /\ rxTodo = <<>>

Next ==
    \/ \E cfg \in Configs : init(cfg)
    \/ destroy
    \/ \E cfg \in Configs : configUpdated(cfg)
    \/ \E cmd \in Commands : sendCommand(cmd)
    \/ \E s \in SocketIds : onConnect(s)
    \/ \E s \in SocketIds, data \in DataChunks : onData(s, data)
    \/ \E s \in SocketIds, msg \in ErrorMessages : onError(s, msg)
    \/ \E s \in SocketIds : onClose(s)

Spec == Init /\ [][Next]_vars

-----------------------------------------------------------------------------
(* The byte stream of one connection, cut into data events by the transport *)

\* The bytes of a sequence of lines, each ended by "\r\n"
RECURSIVE Bytes(_)
Bytes(lines) ==
    IF lines = <<>> THEN <<>> ELSE Head(lines) \o CRLF \o Bytes(Tail(lines))

\* The data events of bytes cut after position cut (0: one event)
Chunks(bytes, cut) ==
    IF cut = 0 THEN <<bytes>>
    ELSE <<SubSeq(bytes, 1, cut), SubSeq(bytes, cut + 1, Len(bytes))>>

Streams == UNION { [1..n -> Lines] : n \in 1..MaxLines }

\* The instance after init with a valid configuration and the connect event of
\* its socket; the device then sends rxLines, which arrive as rxTodo
InitStream ==
    /\ socket = 1
    /\ config = [host |-> "10.0.0.1", port |-> "23"]
    /\ virtualChannels = <<>>
    /\ presets = <<>>
    /\ channelMuteStatus = EmptyMap
    /\ crosspointMuteStatus = EmptyMap
    /\ status = Status("Ok", "")
    /\ live = {1}
    /\ isConnected = {1}
    /\ created = 1
    /\ destroyed = FALSE
    /\ writes = SendAll(1, {1}, RequestDeviceConfiguration).writes
    /\ notes = <<>>
    /\ logs = <<"info", "debug", "debug">>
    /\ rxLines \in Streams
    /\ rxCut \in 0..(Len(Bytes(rxLines)) - 1)
    /\ rxTodo = Chunks(Bytes(rxLines), rxCut)

\* The next data event of the stream
Deliver ==
    /\ rxTodo # <<>>
    /\ onDataCore(socket, Head(rxTodo))
    /\ rxTodo' = Tail(rxTodo)
    /\ UNCHANGED <<rxLines, rxCut>>

NextStream == Deliver

SpecStream == InitStream /\ [][NextStream]_vars

-----------------------------------------------------------------------------
(* Claims *)

\* A TCPHelper event handler of the instance runs for socket s
SocketEvent(s) ==
    \/ onConnect(s)
    \/ \E data \in DataChunks : onData(s, data)
    \/ \E msg \in ErrorMessages : onError(s, msg)
    \/ onClose(s)

\* C1: in every reachable state at most one socket of the manager is live
\* (created and not yet destroyed), and a live socket is the one held in
\* this.socket.
C1_AtMostOneLiveSocket == Cardinality(live) <= 1 /\ live \subseteq {socket}

\* C1 witness: the second socket, opened by a config update of an instance that
\* was connected and had received data, is the only live one.
C1_Witness ==
    /\ created = 2 /\ socket = 2 /\ live = {2}
    /\ status.kind = "Ok" /\ ~destroyed
    /\ virtualChannels # <<>>
    /\ logs = <<>> /\ notes = <<>>

\* C4: sendCommand with no socket held, or with a held socket that does not
\* report itself connected, writes nothing to any socket, logs one error and
\* leaves the socket, the status and the session mirror as they were.
C4_SendWhileNotConnectedIsNoOp ==
    [][\A cmd \in Commands :
          (sendCommand(cmd) /\ (socket = 0 \/ socket \notin isConnected))
              => /\ writes' = <<>>
                 /\ logs' = <<"error">>
                 /\ UNCHANGED <<socket, live, isConnected, created, status, config>>
                 /\ UNCHANGED sessionVars]_vars

\* C4 witness: a command was sent while the held socket was not connected (the
\* error log is the one of sendCommand: the status is not Error).
C4_Witness ==
    /\ socket # 0 /\ socket \notin isConnected
    /\ logs = <<"error">> /\ writes = <<>>
    /\ status.kind = "Ok"

\* C5: every socket event the instance handles comes from the socket it holds:
\* no event of a socket that connectToDevice replaced is processed.
C5_NoEventOfReplacedSocket ==
    [][\A s \in SocketIds \ {socket} : ~SocketEvent(s)]_vars

\* C5 witness: after a reconnect, data of the second socket has been decoded.
C5_Witness ==
    /\ created = 2 /\ socket = 2 /\ 2 \in isConnected
    /\ logs = <<"debug">> /\ notes # <<>>

\* The two startup queries as they appear on the wire
C6_Query1 ==
    <<"g","e","t"," ","v","i","r","t","u","a","l","_",
      "c","h","a","n","n","e","l","s","CR","LF">>

C6_Query2 == <<"g","e","t"," ","p","r","e","s","e","t","s","CR","LF">>

\* C6: the connect event sends exactly "get virtual_channels\r\n" and then
\* "get presets\r\n" over the socket that connected and reports status Ok; a
\* startup query is written by no step other than a connect event.
C6_StartupQueriesOnConnect ==
    [][/\ \A s \in SocketIds :
            onConnect(s) =>
                /\ writes' = <<[sock |-> s, msg |-> C6_Query1],
                               [sock |-> s, msg |-> C6_Query2]>>
                /\ status' = Status("Ok", "")
       /\ (\E i \in DOMAIN writes' : writes'[i].msg \in {C6_Query1, C6_Query2})
            => \E s \in SocketIds : onConnect(s)]_vars

\* C6 witness: the state right after a connect event.
C6_Witness ==
    /\ Len(writes) = 2 /\ logs = <<"info", "debug", "debug">>
    /\ socket \in isConnected /\ status.kind = "Ok"

\* C7: once destroy has been called the instance holds no socket and no socket
\* is live, whatever is called afterwards.
C7_DestroyedIsTerminal == destroyed => (socket = 0 /\ live = {})

\* C8: init or configUpdated with an empty host or an empty port constructs no
\* socket and leaves the instance with no socket held and none live.
C8_NoConnectWithoutHostAndPort ==
    [][\A cfg \in Configs :
          ((init(cfg) \/ configUpdated(cfg)) /\ (cfg.host = "" \/ cfg.port = ""))
              => /\ socket' = 0
                 /\ created' = created
                 /\ live' = {}]_vars

\* C8 witness: an instance that had a socket was given a configuration with a
\* field missing and holds no socket.
C8_Witness ==
    /\ (config.host = "" \/ config.port = "") /\ config # NoConfig
    /\ created >= 1 /\ ~destroyed
    /\ socket = 0 /\ live = {}

\* C9: a socket is constructed only by init or configUpdated; the error and
\* close handlers leave the held socket and the live sockets as they are.
C9_NoAutomaticReconnect ==
    [][/\ (created' # created)
            => \E cfg \in Configs : init(cfg) \/ configUpdated(cfg)
       /\ \A s \in SocketIds :
            (onClose(s) \/ \E msg \in ErrorMessages : onError(s, msg))
                => /\ created' = created
                   /\ socket' = socket
                   /\ live' = live]_vars

\* C9 witness: the connection was closed and the instance still holds the
\* same, unconnected, first socket.
C9_Witness ==
    /\ status.kind = "Disconnected"
    /\ created = 1 /\ socket = 1 /\ socket \notin isConnected
    /\ logs = <<"warn">>

\* The mirror the constructor leaves
EmptySession == Session(<<>>, <<>>, EmptyMap, EmptyMap)

\* Each line of lines delivered whole, in a data event of its own
RECURSIVE DecodeEach(_, _)
DecodeEach(s, lines) ==
    IF lines = <<>> THEN s
    ELSE DecodeEach(ProcessDeviceData(s, Head(lines) \o CRLF).s, Tail(lines))

\* C2: a recognised line that the transport cuts into two data events leaves
\* the session mirror that the whole line delivered in one event leaves.
C2_SplitLineReassembled ==
    (/\ rxTodo = <<>>
     /\ Len(rxLines) = 1 /\ rxLines[1] \in WellFormedLines
     /\ rxCut > 0)
        => Mirror = ProcessDeviceData(EmptySession, rxLines[1] \o CRLF).s

\* C3: several complete recognised lines that arrive in one data event leave the session
\* mirror that the same lines leave when each arrives in an event of its own.
C3_CoalescedLinesDecodedEach ==
    (/\ rxTodo = <<>>
     /\ Len(rxLines) >= 2 /\ \A i \in DOMAIN rxLines : rxLines[i] \in WellFormedLines
     /\ rxCut = 0)
        => Mirror = DecodeEach(EmptySession, rxLines)

\* C10: a line with the prefix "mute " or "crosspoint_mute " that does not have
\* the full form (name not quoted, output name missing, "=<value>" missing)
\* changes nothing of the session mirror and signals no notification.
C10_MalformedLineIsNoOp ==
    (/\ rxTodo = <<>>
     /\ Len(rxLines) = 1 /\ rxLines[1] \in MalformedLines
     /\ rxCut = 0)
        => (Mirror = EmptySession /\ notes = <<>>)

\* C11: a line that starts with none of the four recognised prefixes (the
\* empty line and a line that holds a prefix further in included) leaves the
\* channel list, the preset list and both mute maps as they were and fires no
\* consumer notification.
C11_UnrecognisedLineIsNoOp ==
    [][\A s \in SocketIds, l \in UnrecognisedLines :
          onData(s, l \o CRLF) => (UNCHANGED sessionVars /\ notes' = <<>>)]_vars

\* C11 witness: a data event that fired no notification left a mirror that
\* holds channels and mute entries.
C11_Witness ==
    /\ socket # 0 /\ socket \in isConnected
    /\ logs = <<"debug">> /\ notes = <<>>
    /\ virtualChannels # <<>> /\ channelMuteStatus # EmptyMap

\* C12: a channel mute line signals checkFeedbacks('channelMuteStatus') and
\* nothing else, a crosspoint mute line checkFeedbacks('crosspointMuteStatus')
\* and nothing else, a channel-list or preset-list line updateActions and
\* nothing else; a re-evaluation or rebuild of all feedbacks is signalled by
\* no step other than init.
C12_TargetedNotifications ==
    [][\A s \in SocketIds :
          /\ \A l \in {MuteLine(NameA, <<"1">>), MuteLine(NameA, <<"0">>),
                       MuteLine(NameB, <<"0">>)} :
                onData(s, l \o CRLF) => notes' = <<"checkFeedbacks:channelMuteStatus">>
          /\ onData(s, CrosspointLine(NameA, NameB, <<"1">>) \o CRLF)
                => notes' = <<"checkFeedbacks:crosspointMuteStatus">>
          /\ \A l \in {ChannelsLine, ChannelsLine2, PresetsLine, PresetsLine2} :
                onData(s, l \o CRLF) => notes' = <<"updateActions">>
          /\ (\E i \in DOMAIN notes' : notes'[i] \in {"checkFeedbacks", "updateFeedbacks"})
                => \E cfg \in Configs : init(cfg)]_vars

\* C12 witness: a crosspoint mute line has just been decoded.
C12_Witness ==
    /\ notes = <<"checkFeedbacks:crosspointMuteStatus">>
    /\ crosspointMuteStatus # EmptyMap

\* C13: the error event reports Error with the error's message, the close
\* event reports Disconnected and the connect event reports Ok; apart from
\* these three events only init (which reports Ok) changes the reported
\* status, so between calls of init the reported status is the one of the most
\* recent of the three events.
C13_StatusFollowsTransportEvents ==
    [][/\ \A s \in SocketIds :
            /\ \A msg \in ErrorMessages :
                  onError(s, msg) => status' = [kind |-> "Error", msg |-> msg]
            /\ onClose(s) => status'.kind = "Disconnected"
            /\ onConnect(s) => status' = [kind |-> "Ok", msg |-> ""]
       /\ (status' # status)
            => \/ \E s \in SocketIds : SocketEvent(s)
               \/ \E cfg \in Configs : init(cfg)]_vars

\* C13 witness: an error event after a connect event left the status Error
\* with the message of the error.
C13_Witness ==
    /\ status = [kind |-> "Error", msg |-> "ETIMEDOUT"]
    /\ virtualChannels # <<>>
    /\ logs = <<"error">>

\* C14: sendCommand(cmd) with a held socket that reports itself connected
\* writes exactly one message, cmd followed by "\r\n", to that socket and
\* changes neither the socket held nor the session mirror.
C14_SendWritesOneTerminatedMessage ==
    [][\A cmd \in Commands :
          (sendCommand(cmd) /\ socket # 0 /\ socket \in isConnected)
              => /\ writes' = <<[sock |-> socket, msg |-> cmd \o <<"CR", "LF">>]>>
                 /\ UNCHANGED <<socket, live, isConnected, created>>
                 /\ UNCHANGED sessionVars]_vars

\* C14 witness: one command has just been written to the connected socket.
C14_Witness ==
    /\ Len(writes) = 1 /\ writes[1].sock = socket
    /\ socket \in isConnected
    /\ logs = <<"debug">>

\* The well-formed mute lines of DataChunks: name, value text, value
C15_MuteInputs ==
    { [name |-> NameA, text |-> <<"1">>, val |-> 1],
      [name |-> NameA, text |-> <<"0">>, val |-> 0],
      [name |-> NameB, text |-> <<"0">>, val |-> 0] }

C16_CrosspointInputs ==
    { [in |-> NameA, out |-> NameB, text |-> <<"1">>, val |-> 1],
      [in |-> NameB, out |-> NameA, text |-> <<"0">>, val |-> 0],
      [in |-> NameAB, out |-> NameC, text |-> <<"1">>, val |-> 1],
      [in |-> NameA, out |-> NameBC, text |-> <<"0">>, val |-> 0] }

\* C16: after two well-formed crosspoint lines for distinct (input, output)
\* pairs, each delivered in a data event of its own, the crosspoint map holds
\* under the key <in>:<out> of each pair the value of that pair's line (neither
\* overwrote the other), and the channel mute map and both lists are untouched.
C16_CrosspointCompositeKey ==
    \A p, q \in C16_CrosspointInputs :
        LET lp == CrosspointLine(p.in, p.out, p.text)
            lq == CrosspointLine(q.in, q.out, q.text)
            kp == p.in \o <<":">> \o p.out
            kq == q.in \o <<":">> \o q.out
        IN  (/\ rxTodo = <<>>
             /\ rxLines = <<lp, lq>>
             /\ rxCut = Len(lp) + 2
             /\ <<p.in, p.out>> # <<q.in, q.out>>)
                => /\ kp \in DOMAIN crosspointMuteStatus
                   /\ kq \in DOMAIN crosspointMuteStatus
                   /\ crosspointMuteStatus[kp] = [nan |-> FALSE, n |-> p.val]
                   /\ crosspointMuteStatus[kq] = [nan |-> FALSE, n |-> q.val]
                   /\ channelMuteStatus = EmptyMap
                   /\ virtualChannels = <<>> /\ presets = <<>>

\* C17: the line "virtual_channels=A, B" makes the channel list <<A, B>> and
\* the line "virtual_channels=B" makes it <<B>>, whatever the list held before
\* (entries trimmed, in order, nothing of the old list kept); the preset list
\* and both mute maps are left as they were.
C17_ChannelListReplaced ==
    [][\A s \in SocketIds :
          /\ onData(s, ChannelsLine \o CRLF) =>
                /\ virtualChannels' = << <<"A">>, <<"B">> >>
                /\ UNCHANGED <<presets, channelMuteStatus, crosspointMuteStatus>>
          /\ onData(s, ChannelsLine2 \o CRLF) =>
                /\ virtualChannels' = << <<"B">> >>
                /\ UNCHANGED <<presets, channelMuteStatus, crosspointMuteStatus>>]_vars

\* C17 witness: the list has just been replaced by <<B>> and the mute entry of
\* channel A, which is no longer in the list, is still there.
C17_Witness ==
    /\ virtualChannels = << <<"B">> >>
    /\ notes = <<"updateActions">>
    /\ NameA \in DOMAIN channelMuteStatus

\* C18: the line presets="P A","Q" makes the preset list <<P A, Q>> and the
\* line presets="Q" makes it <<Q>>, whatever the list held before (quotes
\* removed, entries trimmed, in order); the channel list and both mute maps are
\* left as they were.
C18_PresetListReplaced ==
    [][\A s \in SocketIds :
          /\ onData(s, PresetsLine \o CRLF) =>
                /\ presets' = << <<"P", " ", "A">>, <<"Q">> >>
                /\ UNCHANGED <<virtualChannels, channelMuteStatus, crosspointMuteStatus>>
          /\ onData(s, PresetsLine2 \o CRLF) =>
                /\ presets' = << <<"Q">> >>
                /\ UNCHANGED <<virtualChannels, channelMuteStatus, crosspointMuteStatus>>]_vars

\* C18 witness: the preset list has just been set to <<P A, Q>> next to a
\* channel list and a mute entry.
C18_Witness ==
    /\ presets = << <<"P", " ", "A">>, <<"Q">> >>
    /\ notes = <<"updateActions">>
    /\ virtualChannels # <<>> /\ channelMuteStatus # EmptyMap

\* C19: init, configUpdated, the connect event, the error event and the close
\* event leave the channel list, the preset list and both mute maps as they
\* were; a step that changes one of the four is a data event.
C19_SessionChangedOnlyByData ==
    [][/\ \A cfg \in Configs :
            (init(cfg) \/ configUpdated(cfg)) => UNCHANGED sessionVars
       /\ \A s \in SocketIds :
            (onConnect(s) \/ onClose(s) \/ \E msg \in ErrorMessages : onError(s, msg))
                => UNCHANGED sessionVars
       /\ (sessionVars' # sessionVars)
            => \E s \in SocketIds, data \in DataChunks : onData(s, data)]_vars

\* C19 witness: right after a config update that opened the second socket, to
\* the other host, the mirror still holds channels, presets and mute entries.
C19_Witness ==
    /\ config.host = "10.0.0.2" /\ created = 2 /\ socket = 2
    /\ logs = <<>> /\ notes = <<>>
    /\ virtualChannels # <<>> /\ presets # <<>>
    /\ channelMuteStatus # EmptyMap /\ crosspointMuteStatus # EmptyMap

\* C20: every value held in the channel mute map and in the crosspoint mute map
\* is the integer 0 or the integer 1.
C20_MuteValuesAreZeroOrOne ==
    /\ \A k \in DOMAIN channelMuteStatus :
          channelMuteStatus[k] \in {[nan |-> FALSE, n |-> 0], [nan |-> FALSE, n |-> 1]}
    /\ \A k \in DOMAIN crosspointMuteStatus :
          crosspointMuteStatus[k] \in {[nan |-> FALSE, n |-> 0], [nan |-> FALSE, n |-> 1]}

=============================================================================
